---- MODULE Spec2Model ----
(***************************************************************************)
(* Model of the recipe importer: the analysis engine (analysis.py) and the *)
(* block splitter / field extractor (onenote_import.py).                   *)
(*                                                                         *)
(* Text is a sequence of atoms.  An atom is one character (" ", "\n",      *)
(* ":", "-", ".") or a maximal run of characters of one class that the     *)
(* code never looks inside: a run of letters ("mehl", "Zutaten"), a run of *)
(* digits ("200"), the URL scheme "http://".  Two letter atoms are never   *)
(* adjacent in a text of the model, so that each letter atom is one match  *)
(* of [a-zA-Z...]+ .                                                       *)
(***************************************************************************)
EXTENDS Integers, Sequences, FiniteSets, TLC

VARIABLES pc,
          recipe, result,
          recipes, similarity_threshold, items, summary, i, j, similar_candidates,
          report,
          block, rezept,
          text, bloecke,
          args, rezepte, skip_indices, idx, abschnitt_cache, calls, rc,
          route, resolved

vars == <<pc, recipe, result, recipes, similarity_threshold, items, summary, i, j,
          similar_candidates, report, block, rezept, text, bloecke,
          args, rezepte, skip_indices, idx, abschnitt_cache, calls, rc,
          route, resolved>>

(***************************************************************************)
(* Bounds of the model.                                                    *)
(***************************************************************************)
MaxZutaten == 3
MaxBatch == 3
MaxLines == 4
MaxRezepte == 3
MaxFallbackLines == 6

(***************************************************************************)
(* Atoms and the str methods the code uses.                                *)
(***************************************************************************)
LowerLetterAtoms ==
    {"unbekannt", "none", "mit", "spaghetti", "nudeln", "pancetta", "rind",
     "zucker", "brokkoli", "linsen", "mehl", "pasta", "g", "x",
     "titel", "kategorie", "zutaten", "zubereitung", "portionen", "zeit",
     "schwierigkeit", "bilder", "rezept"}

UpperLetterAtoms ==
    {"Unbekannt", "None", "Spaghetti", "Pancetta", "Pasta",
     "Titel", "Kategorie", "Zutaten", "Zubereitung", "Portionen", "Zeit",
     "Schwierigkeit", "Bilder", "Rezept", "Inbox", "Nudelgerichte"}

DigitAtoms == {"200", "5", "1"}

IsLetters(a) == a \in LowerLetterAtoms \cup UpperLetterAtoms
IsDigits(a) == a \in DigitAtoms
\* \w of the regex engine
IsWordChar(a) == IsLetters(a) \/ IsDigits(a)
\* str.isspace / \s
IsSpace(a) == a \in {" ", "\n", "\r"}

\* str.lower() of one atom
LowerAtom(a) ==
    CASE a = "Unbekannt" -> "unbekannt"
      [] a = "None" -> "none"
      [] a = "Spaghetti" -> "spaghetti"
      [] a = "Pancetta" -> "pancetta"
      [] a = "Pasta" -> "pasta"
      [] a = "Titel" -> "titel"
      [] a = "Kategorie" -> "kategorie"
      [] a = "Zutaten" -> "zutaten"
      [] a = "Zubereitung" -> "zubereitung"
      [] a = "Portionen" -> "portionen"
      [] a = "Zeit" -> "zeit"
      [] a = "Schwierigkeit" -> "schwierigkeit"
      [] a = "Bilder" -> "bilder"
      [] OTHER -> a

Lower(s) == [k \in 1..Len(s) |-> LowerAtom(s[k])]

RECURSIVE LStrip(_)
LStrip(s) == IF s # <<>> /\ IsSpace(Head(s)) THEN LStrip(Tail(s)) ELSE s

RECURSIVE RStrip(_)
RStrip(s) ==
    IF s # <<>> /\ IsSpace(s[Len(s)]) THEN RStrip(SubSeq(s, 1, Len(s) - 1)) ELSE s

Strip(s) == RStrip(LStrip(s))

\* sep.join(parts)
RECURSIVE Join(_, _)
Join(sep, parts) ==
    IF parts = <<>> THEN <<>>
    ELSE IF Len(parts) = 1 THEN parts[1]
    ELSE parts[1] \o sep \o Join(sep, Tail(parts))

\* sum(s) of a list of integers
RECURSIVE Sum(_)
Sum(s) == IF s = <<>> THEN 0 ELSE Head(s) + Sum(Tail(s))

Max(a, b) == IF a >= b THEN a ELSE b
Min(a, b) == IF a <= b THEN a ELSE b

\* all sequences over S of length 0..n
SeqsUpTo(S, n) == UNION {[1..k -> S] : k \in 0..n}

(***************************************************************************)
(* Python values of a recipe dict.  A field is absent, None, a str or a    *)
(* list; a list entry is a str, None or an int.                            *)
(***************************************************************************)
Absent == [kind |-> "absent", v |-> <<>>]
NoneVal == [kind |-> "none", v |-> <<>>]
StrVal(s) == [kind |-> "str", v |-> s]
ListVal(l) == [kind |-> "list", v |-> l]
\* an int, held as its decimal digits
IntVal(d) == [kind |-> "int", v |-> <<d>>]

\* dict.get(key): None when the key is absent
Get(val) == IF val.kind = "absent" THEN NoneVal ELSE val
\* dict.get(key, default)
GetDefault(val, default) == IF val.kind = "absent" THEN default ELSE val
\* truth value of a Python object
Truthy(val) ==
    CASE val.kind \in {"absent", "none"} -> FALSE
      [] val.kind \in {"str", "list"} -> val.v # <<>>
      [] val.kind = "int" -> val.v # <<"0">>
\* a or b
Or(a, b) == IF Truthy(a) THEN a ELSE b
\* str(x)
PyStr(val) ==
    CASE val.kind = "str" -> val.v
      [] val.kind = "none" -> <<"None">>
      [] val.kind = "int" -> val.v

(***************************************************************************)
(* analysis.py                                                             *)
(***************************************************************************)
\* units of _MEASURE_RE (stueck stands for "st\u00fcck")
MEASURE_UNITS ==
    {"g", "kg", "ml", "l", "tl", "el", "stk", "stueck", "prise", "tasse", "cup"}

RISK_LABELS == <<"processed_meat", "red_meat", "high_sugar">>

\* RISKY_INGREDIENTS without pancetta among the processed meats
RISKY_INGREDIENTS_NoPancetta ==
    [processed_meat |-> {"speck", "salami", "wurst", "schinken", "bacon"},
     red_meat |-> {"rind", "schwein", "hackfleisch"},
     high_sugar |-> {"zucker", "sirup"}]

RISKY_INGREDIENTS ==
    [processed_meat |-> {"pancetta", "speck", "salami", "wurst", "schinken", "bacon"},
     red_meat |-> {"rind", "schwein", "hackfleisch"},
     high_sugar |-> {"zucker", "sirup"}]

\* (huelsenfruechte, nuesse: the source spells them with umlauts)
PROTECTIVE_INGREDIENTS ==
    <<"brokkoli", "beeren", "hafer", "linsen", "huelsenfruechte", "spinat",
      "kurkuma", "nuesse", "leinsamen">>

\* (tomatensosse_sz, kraeuter_uml: the keys spelled with sharp s and umlaut)
TOKEN_SYNONYMS ==
    [spaghetti |-> "nudeln", pasta |-> "nudeln", napoli |-> "tomatensosse",
     tomatensosse_sz |-> "tomatensosse", tomatensauce |-> "tomatensosse",
     hafermilch |-> "pflanzenmilch", mandelmilch |-> "pflanzenmilch",
     milch |-> "milchbasis", butter |-> "fett", ghee |-> "fett",
     knoblauch |-> "aroma", kraeuter |-> "aroma", kraeuter_uml |-> "aroma"]

STOPWORDS == {"mit", "und", "der", "die", "das", "ein", "eine", "zu", "fuer", "im", "in"}

\* needle in atom, for a lower-case atom: a letter atom of the model holds the
\* needle that is its own spelling and no other
NeedleIn(needle, a) == IsLetters(a) /\ a = needle

\* needle in text
Contains(needle, s) == \E k \in 1..Len(s) : NeedleIn(needle, s[k])

contains_any(s, needles) ==
    LET text_l == Lower(s)
    IN  \E n \in needles : Contains(n, text_l)

normalize_word(token) ==
    LET t == LowerAtom(token)
    IN  IF t \in STOPWORDS THEN ""
        ELSE IF t \in DOMAIN TOKEN_SYNONYMS THEN TOKEN_SYNONYMS[t] ELSE t

\* _WORD_RE.findall: the letter atoms of the text, in order
RECURSIVE WordsOf(_)
WordsOf(s) ==
    IF s = <<>> THEN <<>>
    ELSE (IF IsLetters(Head(s)) THEN <<Head(s)>> ELSE <<>>) \o WordsOf(Tail(s))

tokenize(s) ==
    LET words == WordsOf(Lower(s))
    IN  {normalize_word(words[k]) : k \in 1..Len(words)} \ {""}

\* _MEASURE_RE.search(s): \b digits \s* unit \b
MeasureAt(s, k) ==
    /\ IsDigits(s[k])
    /\ (k = 1 \/ ~IsWordChar(s[k - 1]))
    /\ \E u \in (k + 1)..Len(s) :
          /\ \A m \in (k + 1)..(u - 1) : IsSpace(s[m])
          /\ LowerAtom(s[u]) \in MEASURE_UNITS
          /\ (u = Len(s) \/ ~IsWordChar(s[u + 1]))

measure_search(s) == \E k \in 1..Len(s) : MeasureAt(s, k)

\* [str(x).strip() for x in l if str(x).strip()]
RECURSIVE StrippedEntries(_)
StrippedEntries(l) ==
    IF l = <<>> THEN <<>>
    ELSE (IF Strip(PyStr(Head(l))) # <<>> THEN <<Strip(PyStr(Head(l)))>> ELSE <<>>)
         \o StrippedEntries(Tail(l))

\* [x for x in l if not _MEASURE_RE.search(x)]
RECURSIVE WithoutMeasure(_)
WithoutMeasure(l) ==
    IF l = <<>> THEN <<>>
    ELSE (IF ~measure_search(Head(l)) THEN <<Head(l)>> ELSE <<>>)
         \o WithoutMeasure(Tail(l))

\* the entries of a list of messages whose condition holds, in order
RECURSIVE Appended(_)
Appended(l) ==
    IF l = <<>> THEN <<>>
    ELSE (IF Head(l)[1] THEN <<Head(l)[2]>> ELSE <<>>) \o Appended(Tail(l))

\* Score without the clamp to [0, 100]
ScoreUnclamped(n_issues, n_warnings, protective_count) ==
    100 - 20 * n_issues - 7 * n_warnings + (IF protective_count >= 2 THEN 5 ELSE 0)

\* Score taking 8 points for a warning
ScoreHeavyWarnings(n_issues, n_warnings, protective_count) ==
    LET score == 100 - 20 * n_issues - 8 * n_warnings
                 + (IF protective_count >= 2 THEN 5 ELSE 0)
    IN  Max(0, Min(100, score))

\* Score taking 25 points for an issue
ScoreHeavyIssues(n_issues, n_warnings, protective_count) ==
    LET score == 100 - 25 * n_issues - 7 * n_warnings
                 + (IF protective_count >= 2 THEN 5 ELSE 0)
    IN  Max(0, Min(100, score))

\* the score of analyze_recipe
Score(n_issues, n_warnings, protective_count) ==
    LET score == 100 - 20 * n_issues - 7 * n_warnings
                 + (IF protective_count >= 2 THEN 5 ELSE 0)
    IN  Max(0, Min(100, score))

analyze_recipe(r) ==
    LET title == Strip(PyStr(Or(Get(r.titel), StrVal(<<>>))))
        category == Strip(PyStr(Or(Get(r.kategorie), StrVal(<<>>))))
        ingredients == StrippedEntries(Or(Get(r.zutaten), ListVal(<<>>)).v)
        steps == StrippedEntries(Or(Get(r.schritte), ListVal(<<>>)).v)
        ingredients_without_measure == WithoutMeasure(ingredients)
        joined_ingredients == Lower(Join(<<" ", "|", " ">>, ingredients))
        flagged(label) == contains_any(joined_ingredients, RISKY_INGREDIENTS[label])
        risk_flags == Appended([k \in 1..Len(RISK_LABELS) |->
                                  <<flagged(RISK_LABELS[k]), RISK_LABELS[k]>>])
        in_flags(label) == \E k \in 1..Len(risk_flags) : risk_flags[k] = label
        protective_count ==
            Cardinality({k \in 1..Len(PROTECTIVE_INGREDIENTS) :
                           Contains(PROTECTIVE_INGREDIENTS[k], joined_ingredients)})
        issues == Appended(<<
            <<title = <<>> \/ Lower(title) = <<"unbekannt">>,
              "Titel fehlt oder ist unklar">>,
            <<ingredients = <<>>, "Zutaten fehlen">>,
            <<steps = <<>>, "Zubereitungsschritte fehlen">> >>)
        warnings == Appended(<<
            <<category = <<>>, "Kategorie fehlt">>,
            <<ingredients # <<>>
              /\ Len(ingredients_without_measure) > Max(2, Len(ingredients) \div 2),
              "Viele Zutaten ohne klare Mengenangaben">>,
            <<in_flags("processed_meat"), "Verarbeitetes Fleisch erkannt">>,
            <<in_flags("high_sugar"), "Zuckeranteil pruefen">> >>)
        suggestions ==
            IF protective_count >= 2
            THEN <<"Rezept enthaelt mehrere naehrstoffreiche Komponenten">>
            ELSE <<"Optional mehr ballaststoffreiche Zutaten ergaenzen">>
        conditional == in_flags("processed_meat") \/ in_flags("red_meat")
    IN  [titel |-> IF title # <<>> THEN title ELSE <<"Unbekannt">>,
         quality_score |-> Score(Len(issues), Len(warnings), protective_count),
         issues |-> issues,
         warnings |-> warnings,
         suggestions |-> suggestions,
         health |-> [prostata_krebs |-> IF conditional THEN "bedingt" ELSE "geeignet",
                     brustkrebs |-> IF conditional THEN "bedingt" ELSE "geeignet",
                     risk_flags |-> risk_flags,
                     protective_hits |-> protective_count]]

\* round(num / den, digits) as an integer count of 10^-digits (scale = 10^digits):
\* to the nearest, a tie to the even neighbour
Round(num, den, scale) ==
    LET q == (num * scale) \div den
        rest == (num * scale) % den
    IN  IF 2 * rest > den \/ (2 * rest = den /\ q % 2 = 1) THEN q + 1 ELSE q

\* ' '.join(l) raises TypeError when an entry is not a str
JoinRaises(l) == \E k \in 1..Len(l) : l[k].kind # "str"

\* f"{r.get('titel','')} {' '.join(r.get('zutaten', []) or [])}"
SimilarityText(r) ==
    LET l == Or(GetDefault(r.zutaten, ListVal(<<>>)), ListVal(<<>>)).v
    IN  PyStr(GetDefault(r.titel, StrVal(<<>>))) \o <<" ">>
        \o Join(<<" ">>, [k \in 1..Len(l) |-> l[k].v])

SimilarityRaises(r) ==
    JoinRaises(Or(GetDefault(r.zutaten, ListVal(<<>>)), ListVal(<<>>)).v)

\* recipe_similarity dividing by the larger set instead of the union
recipe_similarity_overlap(recipe_a, recipe_b) ==
    IF SimilarityRaises(recipe_a) \/ SimilarityRaises(recipe_b)
    THEN [raised |-> TRUE, num |-> 0, den |-> 1]
    ELSE LET set_a == tokenize(SimilarityText(recipe_a))
             set_b == tokenize(SimilarityText(recipe_b))
         IN  IF set_a = {} \/ set_b = {}
             THEN [raised |-> FALSE, num |-> 0, den |-> 1]
             ELSE [raised |-> FALSE,
                   num |-> Cardinality(set_a \cap set_b),
                   den |-> Max(Cardinality(set_a), Cardinality(set_b))]

\* the similarity as the fraction num / den, or the TypeError it raises
recipe_similarity(recipe_a, recipe_b) ==
    IF SimilarityRaises(recipe_a) \/ SimilarityRaises(recipe_b)
    THEN [raised |-> TRUE, num |-> 0, den |-> 1]
    ELSE LET set_a == tokenize(SimilarityText(recipe_a))
             set_b == tokenize(SimilarityText(recipe_b))
         IN  IF set_a = {} \/ set_b = {}
             THEN [raised |-> FALSE, num |-> 0, den |-> 1]
             ELSE [raised |-> FALSE,
                   num |-> Cardinality(set_a \cap set_b),
                   den |-> Cardinality(set_a \cup set_b)]

\* sim >= similarity_threshold, the threshold in ten-thousandths
AtLeastThreshold(sim, threshold) == sim.num * 10000 >= threshold * sim.den

\* AverageScore truncating instead of rounding
AverageScoreTruncated(scores) ==
    IF scores # <<>> THEN (Sum(scores) * 10) \div Len(scores) ELSE 0

\* round(sum(scores) / len(items), 1) if items else 0.0, in tenths
AverageScore(scores) ==
    IF scores # <<>> THEN Round(Sum(scores), Len(scores), 10) ELSE 0

\* the inner loop starting at i: range(i, len(recipes))
FirstJFromI(a) == a

\* the first j of the inner loop: range(i + 1, len(recipes))
FirstJ(a) == a + 1

\* the entry appended for the pair (a, b); similarity in thousandths
Candidate(a, b, sim) ==
    [index_a |-> a, titel_a |-> items[a + 1].titel,
     index_b |-> b, titel_b |-> items[b + 1].titel,
     similarity |-> Round(sim.num, sim.den, 1000)]

(***************************************************************************)
(* onenote_import.py: the regular expressions.  Offsets are those of       *)
(* Python: offset o lies before the atom s[o + 1]; -1 stands for no match. *)
(***************************************************************************)
\* s[x:y]
Slice(s, x, y) == SubSeq(s, x + 1, y)

\* ^ and $ under re.MULTILINE
AtBOL(s, o) == o = 0 \/ s[o] = "\n"
AtEOL(s, o) == o = Len(s) \/ s[o + 1] = "\n"

\* the end of the longest \s* at offset o
RECURSIVE SkipSpace(_, _)
SkipSpace(s, o) == IF o < Len(s) /\ IsSpace(s[o + 1]) THEN SkipSpace(s, o + 1) ELSE o

\* the end of the longest \d* at offset o
RECURSIVE SkipDigits(_, _)
SkipDigits(s, o) == IF o < Len(s) /\ IsDigits(s[o + 1]) THEN SkipDigits(s, o + 1) ELSE o

\* the end of the longest .* at offset o (. matches all but the newline)
RECURSIVE SkipDots(_, _)
SkipDots(s, o) == IF o < Len(s) /\ s[o + 1] # "\n" THEN SkipDots(s, o + 1) ELSE o

SetMax(E) == IF E = {} THEN -1 ELSE CHOOSE x \in E : \A y \in E : y <= x
SetMin(E) == IF E = {} THEN -1 ELSE CHOOSE x \in E : \A y \in E : x <= y

\* the last offset of lo..hi at an end of line: where a greedy \s* followed
\* by $ ends after backtracking
LastEOL(s, lo, hi) == SetMax({e \in lo..hi : AtEOL(s, e)})

CATEGORY_WORDS == {"kategorie"}
INGREDIENTS_WORDS == {"zutaten"}
INSTRUCTIONS_WORDS == {"zubereitung", "anleitung"}
PORTIONS_WORDS == {"portionen", "servieren"}
TIME_WORDS == {"zeit", "dauer", "zubereitungszeit"}
DIFFICULTY_WORDS == {"schwierigkeit", "schwierigkeitsgrad"}
IMAGES_WORDS == {"bilder", "bild", "foto", "fotos", "image", "images"}
TITLE_WORDS == {"titel", "title"}

\* the words of _HEADER_PATTERN
HEADER_WORDS ==
    CATEGORY_WORDS \cup INGREDIENTS_WORDS \cup INSTRUCTIONS_WORDS \cup PORTIONS_WORDS
    \cup TIME_WORDS \cup DIFFICULTY_WORDS \cup IMAGES_WORDS

\* (?im)^(?:words)\s*:?\s*$ matched at offset o: the end of the match.  \s also
\* matches line breaks, so the match may run over blank lines.
HeaderMatchEnd(s, o, words) ==
    IF ~(AtBOL(s, o) /\ o < Len(s) /\ LowerAtom(s[o + 1]) \in words) THEN -1
    ELSE LET q == o + 1
             a == SkipSpace(s, q)
             with_colon ==
                 IF a < Len(s) /\ s[a + 1] = ":"
                 THEN LastEOL(s, a + 1, SkipSpace(s, a + 1)) ELSE -1
         IN  IF with_colon # -1 THEN with_colon ELSE LastEOL(s, q, a)

NoMatch == [start |-> -1, end |-> -1, group |-> <<>>]

\* re.search of a header pattern: the leftmost match
HeaderSearch(s, words) ==
    LET o == SetMin({x \in 0..(Len(s) - 1) : HeaderMatchEnd(s, x, words) # -1})
    IN  IF o = -1 THEN NoMatch
        ELSE [start |-> o, end |-> HeaderMatchEnd(s, o, words), group |-> <<>>]

\* _TITLE_LINE_PATTERN, (?im)^(?:titel|title)\s*:\s*(.+)$, matched at offset o.
\* The \s* after the colon also matches line breaks: the title text (.+) is
\* the rest of the first line, after the colon, that holds a character.
TitleMatch(s, o) ==
    IF ~(AtBOL(s, o) /\ o < Len(s) /\ LowerAtom(s[o + 1]) \in TITLE_WORDS) THEN NoMatch
    ELSE LET a == SkipSpace(s, o + 1)
         IN  IF ~(a < Len(s) /\ s[a + 1] = ":") THEN NoMatch
             ELSE LET b == SkipSpace(s, a + 1)
                      c == SetMax({x \in (a + 1)..b : x < Len(s) /\ s[x + 1] # "\n"})
                  IN  IF c = -1 THEN NoMatch
                      ELSE [start |-> o, end |-> SkipDots(s, c),
                            group |-> Slice(s, c, SkipDots(s, c))]

\* re.search(_TITLE_LINE_PATTERN, s) from offset pos on
TitleSearch(s, pos) ==
    LET o == SetMin({x \in pos..(Len(s) - 1) : TitleMatch(s, x).start # -1})
    IN  IF o = -1 THEN NoMatch ELSE TitleMatch(s, o)

\* [m.start() for m in re.finditer(_TITLE_LINE_PATTERN, s)], from pos on
RECURSIVE TitleStarts(_, _)
TitleStarts(s, pos) ==
    LET m == TitleSearch(s, pos)
    IN  IF m.start = -1 THEN <<>> ELSE <<m.start>> \o TitleStarts(s, m.end)

\* str.splitlines: breaks at \n, \r\n and \r; no empty last line
RECURSIVE SplitLines(_)
SplitLines(s) ==
    IF s = <<>> THEN <<>>
    ELSE LET k == SetMin({x \in 1..Len(s) : s[x] \in {"\n", "\r"}})
         IN  IF k = -1 THEN <<s>>
             ELSE LET brk == IF s[k] = "\r" /\ k < Len(s) /\ s[k + 1] = "\n"
                             THEN 2 ELSE 1
                  IN  <<SubSeq(s, 1, k - 1)>> \o SplitLines(SubSeq(s, k + brk, Len(s)))

\* the end of the longest (?:\r?\n)* at offset o, and the number of its breaks
RECURSIVE SkipBreaks(_, _, _)
SkipBreaks(s, o, n) ==
    IF o < Len(s) /\ s[o + 1] = "\n" THEN SkipBreaks(s, o + 1, n + 1)
    ELSE IF o + 1 < Len(s) /\ s[o + 1] = "\r" /\ s[o + 2] = "\n"
         THEN SkipBreaks(s, o + 2, n + 1)
         ELSE [end |-> o, count |-> n]

\* re.split(r'(?:\r?\n){3,}', s)
RECURSIVE SplitBreaks3(_)
SplitBreaks3(s) ==
    LET o == SetMin({x \in 0..Len(s) : SkipBreaks(s, x, 0).count >= 3})
    IN  IF o = -1 THEN <<s>>
        ELSE <<Slice(s, 0, o)>>
             \o SplitBreaks3(Slice(s, SkipBreaks(s, o, 0).end, Len(s)))

\* the end of the match of \n\s*\n+ at offset o: the greedy \s* gives back
\* down to the last line break of the whitespace that follows
BlankRunEnd(s, o) ==
    IF ~(o < Len(s) /\ s[o + 1] = "\n") THEN -1
    ELSE SetMax({e \in (o + 2)..SkipSpace(s, o + 1) : s[e] = "\n"})

\* re.split(r'\n\s*\n+', s)
RECURSIVE SplitBlankRuns(_)
SplitBlankRuns(s) ==
    LET o == SetMin({x \in 0..(Len(s) - 1) : BlankRunEnd(s, x) # -1})
    IN  IF o = -1 THEN <<s>>
        ELSE <<Slice(s, 0, o)>> \o SplitBlankRuns(Slice(s, BlankRunEnd(s, o), Len(s)))

\* [f(p) for p in parts if p.strip()], f being strip
RECURSIVE StrippedNonBlank(_)
StrippedNonBlank(parts) ==
    IF parts = <<>> THEN <<>>
    ELSE (IF Strip(Head(parts)) # <<>> THEN <<Strip(Head(parts))>> ELSE <<>>)
         \o StrippedNonBlank(Tail(parts))

(***************************************************************************)
(* onenote_import.py: rezepte_aufteilen and rezept_parsen                  *)
(***************************************************************************)
\* the blocks of the title-based split: text[start:end].strip(), if not empty
RECURSIVE TitleBlocks(_, _)
TitleBlocks(s, starts) ==
    IF starts = <<>> THEN <<>>
    ELSE LET end == IF Len(starts) > 1 THEN starts[2] ELSE Len(s)
             blk == Strip(Slice(s, starts[1], end))
         IN  (IF blk # <<>> THEN <<blk>> ELSE <<>>) \o TitleBlocks(s, Tail(starts))

rezepte_aufteilen(s) ==
    LET matches == TitleStarts(s, 0)
    IN  IF matches # <<>> THEN TitleBlocks(s, matches)
        ELSE StrippedNonBlank(SplitBreaks3(s))

\* BulletStripped with \s* after the bullet in place of \s+
BulletStrippedLoose(s) ==
    LET a == SkipSpace(s, 0)
    IN  IF a < Len(s) /\ s[a + 1] = "-"
        THEN Slice(s, SkipSpace(s, a + 1), Len(s)) ELSE s

\* re.sub(r'^\s*[-\*\u2022]\s+', '', s): the atom "-" stands for the three bullets
BulletStripped(s) ==
    LET a == SkipSpace(s, 0)
    IN  IF a + 1 < Len(s) /\ s[a + 1] = "-" /\ IsSpace(s[a + 2])
        THEN Slice(s, SkipSpace(s, a + 1), Len(s)) ELSE s

\* re.sub(r'^\s*\d+[.)]\s+', '', s): the atom "." stands for "." and ")"
NumberStripped(s) ==
    LET a == SkipSpace(s, 0)
        d == SkipDigits(s, a)
    IN  IF d > a /\ d + 1 < Len(s) /\ s[d + 1] = "." /\ IsSpace(s[d + 2])
        THEN Slice(s, SkipSpace(s, d + 1), Len(s)) ELSE s

remove_list_prefix(s) == Strip(NumberStripped(BulletStripped(s)))

\* [remove_list_prefix(l) for l in lines if l.strip()]
RECURSIVE PrefixesRemoved(_)
PrefixesRemoved(lines) ==
    IF lines = <<>> THEN <<>>
    ELSE (IF Strip(Head(lines)) # <<>> THEN <<remove_list_prefix(Head(lines))>> ELSE <<>>)
         \o PrefixesRemoved(Tail(lines))

\* the text from the end of the first header line of `words` to the next line
\* of _HEADER_PATTERN or the end: text[start:end], and whether the header is there
SectionText(s, words) ==
    LET m == HeaderSearch(s, words)
    IN  IF m.start = -1 THEN [found |-> FALSE, sec |-> <<>>]
        ELSE LET start == m.end
                 next_header == HeaderSearch(Slice(s, start, Len(s)), HEADER_WORDS)
                 end == IF next_header.start # -1 THEN start + next_header.start
                        ELSE Len(s)
             IN  [found |-> TRUE, sec |-> Slice(s, start, end)]

extract_section(words, s) ==
    LET m == SectionText(s, words)
    IN  IF ~m.found THEN <<>> ELSE PrefixesRemoved(SplitLines(Strip(m.sec)))

\* the first zeile of lines with zeile.strip(), stripped; `default` if none
FirstNonBlank(lines, default) ==
    LET k == SetMin({x \in 1..Len(lines) : Strip(lines[x]) # <<>>})
    IN  IF k = -1 THEN default ELSE Strip(lines[k])

\* portionen, zeit, schwierigkeit: "" without the header or without a line
FirstLineOfSection(words, s) ==
    LET m == SectionText(s, words)
    IN  IF ~m.found THEN <<>> ELSE FirstNonBlank(SplitLines(Strip(m.sec)), <<>>)

\* kategorie: None without the header or without a line
KategorieOf(s) ==
    LET m == SectionText(s, CATEGORY_WORDS)
        lines == SplitLines(Strip(m.sec))
    IN  IF m.found /\ FirstNonBlank(lines, <<>>) # <<>>
        THEN StrVal(FirstNonBlank(lines, <<>>)) ELSE NoneVal

\* re.match(r'^https?://', b.strip(), re.I)
IsUrl(b) == Strip(b) # <<>> /\ Strip(b)[1] = "http://"

RECURSIVE OnlyUrls(_)
OnlyUrls(l) ==
    IF l = <<>> THEN <<>>
    ELSE (IF IsUrl(Head(l)) THEN <<Head(l)>> ELSE <<>>) \o OnlyUrls(Tail(l))

\* next((l for l in zeilen if l.strip()), "Unbekannt")
FirstNonBlankRaw(zeilen) ==
    LET k == SetMin({x \in 1..Len(zeilen) : Strip(zeilen[x]) # <<>>})
    IN  IF k = -1 THEN <<"Unbekannt">> ELSE zeilen[k]

\* the title of a block
TitelOf(zeilen, gesamt) ==
    LET m_t == TitleSearch(gesamt, 0)
    IN  IF m_t.start # -1 THEN Strip(m_t.group)
        ELSE Strip(FirstNonBlankRaw(zeilen))

\* FallbackChunks keeping the first line of the block
FallbackChunksWithFirstLine(zeilen) ==
    LET rest == Strip(Join(<<"\n">>, zeilen))
    IN  IF rest = <<>> THEN <<>> ELSE SplitBlankRuns(rest)

\* FallbackChunks without the split on blank lines
FallbackChunksUnsplit(zeilen) ==
    LET rest == Strip(Join(<<"\n">>, Tail(zeilen)))
    IN  IF rest = <<>> THEN <<>> ELSE <<rest>>

\* the fallback: the chunks of the block without its first line
FallbackChunks(zeilen) ==
    LET rest == Strip(Join(<<"\n">>, Tail(zeilen)))
    IN  IF rest = <<>> THEN <<>> ELSE SplitBlankRuns(rest)

rezept_parsen(blk) ==
    LET raw_lines == SplitLines(blk)
        zeilen == [k \in 1..Len(raw_lines) |-> RStrip(raw_lines[k])]
        gesamt == Join(<<"\n">>, zeilen)
        zutaten == extract_section(INGREDIENTS_WORDS, gesamt)
        schritte == extract_section(INSTRUCTIONS_WORDS, gesamt)
        bilder_roh == extract_section(IMAGES_WORDS, gesamt)
        fallback == zutaten = <<>> /\ schritte = <<>>
        chunks == IF zeilen = <<>> THEN <<>> ELSE FallbackChunks(zeilen)
    IN  [titel |-> TitelOf(zeilen, gesamt),
         kategorie |-> KategorieOf(gesamt),
         zutaten |-> IF fallback /\ Len(chunks) >= 1
                     THEN StrippedNonBlank(SplitLines(chunks[1])) ELSE zutaten,
         schritte |-> IF fallback /\ Len(chunks) >= 2
                      THEN StrippedNonBlank(SplitLines(chunks[2])) ELSE schritte,
         portionen |-> FirstLineOfSection(PORTIONS_WORDS, gesamt),
         zeit |-> FirstLineOfSection(TIME_WORDS, gesamt),
         schwierigkeit |-> FirstLineOfSection(DIFFICULTY_WORDS, gesamt),
         bilder |-> OnlyUrls(bilder_roh),
         raw |-> blk]

(***************************************************************************)
(* The inputs of the model.                                                *)
(***************************************************************************)
(* onenote_import.py: routing of a recipe to a section and a page title.   *)
(* A mapping is a function from normalized labels to section names.        *)
(***************************************************************************)
\* (value or "").strip().lower()
normalize_label(value) == Lower(Strip(PyStr(Or(value, StrVal(<<>>)))))

\* mapping.get(key, default)
MappingGet(mapping, key, default) ==
    IF key \in DOMAIN mapping THEN mapping[key] ELSE default

\* the offset of the first occurrence of the one-atom separator in s, or -1
FindSeparator(s, separator) ==
    IF separator = <<>> THEN -1
    ELSE SetMin({x \in 0..(Len(s) - 1) : s[x + 1] = separator[1]})

\* _resolve_target_section_and_title always putting the "[sub] " prefix
\* when there is a sub-category
resolve_always_prefix(rz, default_section, mapping, separator, use_subcategory_title_prefix) ==
    LET title == PyStr(Or(Get(rz.titel), StrVal(<<"Rezept">>)))
        category_raw == Strip(PyStr(Or(Get(rz.kategorie), StrVal(<<>>))))
        cut == FindSeparator(category_raw, separator)
        top == IF cut # -1 THEN Strip(Slice(category_raw, 0, cut)) ELSE category_raw
        sub == IF cut # -1 THEN Strip(Slice(category_raw, cut + 1, Len(category_raw)))
               ELSE <<>>
        full == MappingGet(mapping, normalize_label(StrVal(category_raw)), <<>>)
        section == IF full # <<>> THEN full
                   ELSE MappingGet(mapping, normalize_label(StrVal(top)),
                                   IF top # <<>> THEN top ELSE default_section)
    IN  IF category_raw = <<>> THEN [section |-> default_section, title |-> title]
        ELSE [section |-> section,
              title |-> IF sub # <<>>
                        THEN <<"[">> \o sub \o <<"]", " ">> \o title ELSE title]

resolve_target_section_and_title(rz, default_section, mapping, separator, use_subcategory_title_prefix) ==
    LET title == PyStr(Or(Get(rz.titel), StrVal(<<"Rezept">>)))
        category_raw == Strip(PyStr(Or(Get(rz.kategorie), StrVal(<<>>))))
        cut == FindSeparator(category_raw, separator)
        top == IF cut # -1 THEN Strip(Slice(category_raw, 0, cut)) ELSE category_raw
        sub == IF cut # -1 THEN Strip(Slice(category_raw, cut + 1, Len(category_raw)))
               ELSE <<>>
        full == MappingGet(mapping, normalize_label(StrVal(category_raw)), <<>>)
        section == IF full # <<>> THEN full
                   ELSE MappingGet(mapping, normalize_label(StrVal(top)),
                                   IF top # <<>> THEN top ELSE default_section)
    IN  IF category_raw = <<>> THEN [section |-> default_section, title |-> title]
        ELSE [section |-> section,
              title |-> IF sub # <<>> /\ use_subcategory_title_prefix
                        THEN <<"[">> \o sub \o <<"]", " ">> \o title ELSE title]

(***************************************************************************)
(* onenote_import.py: main.  The calls of main to the file system, to the  *)
(* identity provider and to the note service are kept in calls, in order.  *)
(***************************************************************************)
SIMILARITY_THRESHOLD == 4500
STANDARD_ABSCHNITT == <<"Inbox">>
SUBCATEGORY_SEPARATOR == <<"/">>
USE_SUBCATEGORY_TITLE_PREFIX == TRUE
\* _parse_category_mapping(CATEGORY_MAPPING) for "pasta=Nudelgerichte"
category_mapping == [k \in {<<"pasta">>} |-> <<"Nudelgerichte">>]

\* one call of main to the outside, and whether it succeeded
Call(op, ok, index, abschnitt, title) ==
    [op |-> op, ok |-> ok, idx |-> index, abschnitt |-> abschnitt, page_title |-> title]

\* the recipe dict rezept_parsen returns, as analyze_recipes reads it
AsRecipe(rz) ==
    [titel |-> StrVal(rz.titel), kategorie |-> rz.kategorie,
     zutaten |-> ListVal([k \in 1..Len(rz.zutaten) |-> StrVal(rz.zutaten[k])]),
     schritte |-> ListVal([k \in 1..Len(rz.schritte) |-> StrVal(rz.schritte[k])])]

\* the index skipped for a similar pair: the first recipe of the pair
SkippedOfPairFirst(pair) == pair.index_a

\* the index skipped for a similar pair: pair.get("index_b")
SkippedOfPair(pair) == pair.index_b

\* skip_indices for the policy and the analysis report
SkipIndices(policy, rep) ==
    IF policy # "skip-similar-or-unfit" THEN {}
    ELSE {k - 1 : k \in {n \in 1..Len(rep.items) : rep.items[n].issues # <<>>}}
         \cup {SkippedOfPair(rep.similar_candidates[k]) :
                 k \in 1..Len(rep.similar_candidates)}

\* the section name and page title of recipe number n (from 0)
Resolved(n) ==
    resolve_target_section_and_title(AsRecipe(rezepte[n + 1]), STANDARD_ABSCHNITT,
        category_mapping, SUBCATEGORY_SEPARATOR, USE_SUBCATEGORY_TITLE_PREFIX)

\* the id the note service gives for a section name
SectionId(name) == <<"id">> \o name

(***************************************************************************)
S(atom) == StrVal(<<atom>>)

TitelPool == {Absent, NoneVal, StrVal(<<>>), StrVal(<<" ">>), S("Unbekannt"),
              S("Spaghetti")}
KategoriePool == {Absent, NoneVal, StrVal(<<>>), S("Pasta")}
EntryPool == {StrVal(<<"200", "g", " ", "mehl">>), S("mehl"), S("Pancetta"),
              S("rind"), S("zucker"), S("brokkoli"), S("linsen"), S(" ")}
ZutatenPool == {Absent, NoneVal} \cup {ListVal(l) : l \in SeqsUpTo(EntryPool, MaxZutaten)}
SchrittePool == {Absent, ListVal(<<>>), ListVal(<<S("x")>>)}

RecipePool ==
    [titel : TitelPool, kategorie : KategoriePool, zutaten : ZutatenPool,
     schritte : SchrittePool]

Rec(t, k, z, s) == [titel |-> t, kategorie |-> k, zutaten |-> z, schritte |-> s]

BatchPool ==
    {Rec(S("Spaghetti"), S("Pasta"), ListVal(<<S("mehl"), S("zucker")>>), ListVal(<<S("x")>>)),
     Rec(S("nudeln"), NoneVal, ListVal(<<S("mehl"), S("rind")>>), ListVal(<<S("x")>>)),
     Rec(S("Pasta"), S("Pasta"), ListVal(<<S("zucker"), S("mehl")>>), ListVal(<<S("x")>>)),
     Rec(StrVal(<<>>), StrVal(<<>>), ListVal(<<>>), ListVal(<<>>)),
     Rec(Absent, Absent, Absent, Absent),
     Rec(NoneVal, NoneVal, NoneVal, NoneVal),
     Rec(S("mit"), S("Pasta"), ListVal(<<S(" ")>>), ListVal(<<S("x")>>)),
     Rec(S("nudeln"), S("Pasta"), ListVal(<<IntVal("5"), S("mehl")>>), ListVal(<<NoneVal>>)),
     Rec(S("Unbekannt"), S("Pasta"), ListVal(<<S("brokkoli"), S("linsen")>>), ListVal(<<S("x")>>)),
     Rec(S("nudeln"), S("Pasta"), ListVal(<<>>), ListVal(<<S("x")>>))}

\* similarity thresholds, in ten-thousandths (0.45 is the default)
ThresholdPool == {0, 3333, 4500, 5500}

NoResult == [titel |-> <<>>, quality_score |-> 0, issues |-> <<>>, warnings |-> <<>>,
             suggestions |-> <<>>,
             health |-> [prostata_krebs |-> "", brustkrebs |-> "", risk_flags |-> <<>>,
                         protective_hits |-> 0]]
NoSummary == [average_quality_score |-> 0, total_issues |-> 0, total_warnings |-> 0]
NoReport == [summary |-> [count |-> 0, average_quality_score |-> 0, total_issues |-> 0,
                          total_warnings |-> 0, similar_candidates |-> 0],
             similarity_threshold |-> 0, similar_candidates |-> <<>>, items |-> <<>>]

ScorerUnused == recipe = Rec(Absent, Absent, Absent, Absent) /\ result = NoResult
BatchUnused ==
    /\ recipes = <<>> /\ similarity_threshold = 0 /\ items = <<>>
    /\ summary = NoSummary /\ i = 0 /\ j = 0 /\ similar_candidates = <<>>
    /\ report = NoReport
\* the lines a block is made of
ParseLinePool ==
    {<<>>,
     <<"Titel", ":", " ", "x">>,
     <<"Titel", ":", " ">>,
     <<"Zutaten", ":">>,
     <<"Zubereitung">>,
     <<"Kategorie", ":">>,
     <<"Bilder", ":">>,
     <<"-", " ", "x">>,
     <<" ", "1", ".", " ", "x", " ">>,
     <<"http://", "x">>,
     <<"-">>,
     <<" ", "Pasta", " ">>,
     <<"Zeit">>,
     <<":">>}

\* the lines a text to split is made of
SplitLinePool ==
    {<<>>,
     <<"Titel", ":", " ", "x">>,
     <<"Titel", ":">>,
     <<"Titel", ":", " ">>,
     <<" ", "Titel", ":", " ", "x">>,
     <<"Zutaten", ":">>,
     <<"x">>,
     <<" ", "x", " ">>,
     <<"x", "\r">>,
     <<"\r">>,
     <<"Titel">>,
     <<":", " ", "x">>}

\* the lines a block for the fallback is made of
FallbackLinePool ==
    {<<>>,
     <<" ">>,
     <<"x">>,
     <<" ", "-", " ", "x", " ">>,
     <<"Zutaten", ":">>}

\* "\n".join(lines) for up to MaxLines lines of a pool
TextsOf(pool) == {Join(<<"\n">>, ls) : ls \in SeqsUpTo(pool, MaxLines)}

NoRezept == [titel |-> <<>>, kategorie |-> NoneVal, zutaten |-> <<>>, schritte |-> <<>>,
             portionen |-> <<>>, zeit |-> <<>>, schwierigkeit |-> <<>>, bilder |-> <<>>,
             raw |-> <<>>]

ParseUnused == block = <<>> /\ rezept = NoRezept
SplitUnused == text = <<>> /\ bloecke = <<>>

\* the blocks a text of main is made of
MainBlockPool ==
    {Join(<<"\n">>, << <<"Titel", ":", " ", "nudeln">>, <<"Kategorie", ":">>,
                       <<"Pasta", "/", "x">>, <<"Zutaten", ":">>,
                       <<"-", " ", "200", " ", "g", " ", "nudeln">>,
                       <<"Zubereitung", ":">>, <<"-", " ", "x">> >>),
     Join(<<"\n">>, << <<"Titel", ":", " ", "nudeln">>, <<"Zutaten", ":">>,
                       <<"-", " ", "200", " ", "g", " ", "nudeln">>,
                       <<"Zubereitung", ":">>, <<"-", " ", "x">> >>),
     Join(<<"\n">>, << <<"Titel", ":", " ", "linsen">>, <<"Kategorie", ":">>,
                       <<"Pasta">>, <<"Zutaten", ":">>, <<"-", " ", "linsen">>,
                       <<"Zubereitung", ":">>, <<"-", " ", "x">> >>),
     <<"Titel", ":", " ", "mehl">>}

ArgsPool ==
    [dry_run : BOOLEAN, analyze_only : BOOLEAN,
     import_policy : {"allow-duplicates", "skip-similar-or-unfit"},
     abschnitt_id : {<<>>, <<"id", "x">>}]

NoArgs == [dry_run |-> FALSE, analyze_only |-> FALSE,
           import_policy |-> "allow-duplicates", abschnitt_id |-> <<>>]
NoCache == [name \in {} |-> <<>>]
MainUnused ==
    /\ args = NoArgs /\ rezepte = <<>> /\ skip_indices = {} /\ idx = 0
    /\ abschnitt_cache = NoCache /\ calls = <<>> /\ rc = -1
NoRoute == [rezept |-> [titel |-> Absent, kategorie |-> Absent],
            default_section |-> <<>>, mapping |-> NoCache, separator |-> <<>>,
            use_subcategory_title_prefix |-> FALSE]
NoResolved == [section |-> <<>>, title |-> <<>>]

\* the arguments of _resolve_target_section_and_title
RouteTitelPool == {Absent, NoneVal, StrVal(<<>>), S("x")}
RouteKategoriePool ==
    {Absent, NoneVal, StrVal(<<>>), StrVal(<<" ">>), S("Pasta"), S("x"),
     StrVal(<<" ", "Pasta", " ">>), StrVal(<<"Pasta", "/", "x">>),
     StrVal(<<"Pasta", " ", "/", " ", "x">>), StrVal(<<"/", "x">>),
     StrVal(<<"Pasta", "/">>), StrVal(<<"Pasta", "/", "x", "/", "x">>)}
MappingPool ==
    {NoCache,
     [k \in {<<"pasta">>} |-> <<"Nudelgerichte">>],
     [k \in {<<"pasta">>, <<"pasta", "/", "x">>} |->
         IF k = <<"pasta">> THEN <<"Nudelgerichte">> ELSE <<"Inbox">>],
     [k \in {<<"x">>} |-> <<"Pasta">>]}
RoutePool ==
    [rezept : [titel : RouteTitelPool, kategorie : RouteKategoriePool],
     default_section : {<<"Inbox">>},
     mapping : MappingPool,
     separator : {<<>>, <<"/">>},
     use_subcategory_title_prefix : BOOLEAN]
RouteUnused == route = NoRoute /\ resolved = NoResolved

scorerVars == <<recipe, result>>
batchVars == <<recipes, similarity_threshold, items, summary, i, j, similar_candidates,
               report>>
parseVars == <<block, rezept>>
splitVars == <<text, bloecke>>
mainVars == <<args, rezepte, skip_indices, idx, abschnitt_cache, calls, rc>>
routeVars == <<route, resolved>>

(***************************************************************************)
(* analyze_recipe on one recipe.                                           *)
(***************************************************************************)
InitScorer ==
    /\ pc = "scorer"
    /\ recipe \in RecipePool
    /\ result = NoResult
    /\ BatchUnused /\ ParseUnused /\ SplitUnused /\ MainUnused /\ RouteUnused

AnalyzeRecipe ==
    /\ pc = "scorer"
    /\ result' = analyze_recipe(recipe)
    /\ pc' = "scored"
    /\ UNCHANGED <<recipe, batchVars, parseVars, splitVars, mainVars, routeVars>>

NextScorer == AnalyzeRecipe

SpecScorer == InitScorer /\ [][NextScorer]_vars

(***************************************************************************)
(* analyze_recipes on a batch: the items, then the loop over the pairs     *)
(* (i, j), then the report.  pc = "raised" is the TypeError of the join.   *)
(***************************************************************************)
InitBatch ==
    /\ pc = "start"
    /\ recipes \in SeqsUpTo(BatchPool, MaxBatch)
    /\ similarity_threshold \in ThresholdPool
    /\ items = <<>> /\ summary = NoSummary /\ i = 0 /\ j = 0
    /\ similar_candidates = <<>> /\ report = NoReport
    /\ ScorerUnused /\ ParseUnused /\ SplitUnused /\ MainUnused /\ RouteUnused

AnalyzeItems ==
    /\ pc = "start"
    /\ LET its == [k \in 1..Len(recipes) |-> analyze_recipe(recipes[k])]
       IN  /\ items' = its
           /\ summary' =
                 [average_quality_score |->
                      AverageScore([k \in 1..Len(its) |-> its[k].quality_score]),
                  total_issues |-> Sum([k \in 1..Len(its) |-> Len(its[k].issues)]),
                  total_warnings |-> Sum([k \in 1..Len(its) |-> Len(its[k].warnings)])]
    /\ i' = 0
    /\ j' = FirstJ(0)
    /\ pc' = IF FirstJ(0) < Len(recipes) THEN "pairs" ELSE "return"
    /\ UNCHANGED <<recipes, similarity_threshold, similar_candidates, report,
                   scorerVars, parseVars, splitVars, mainVars, routeVars>>

PairStep ==
    /\ pc = "pairs"
    /\ LET sim == recipe_similarity(recipes[i + 1], recipes[j + 1])
       IN  IF sim.raised
           THEN /\ pc' = "raised"
                /\ UNCHANGED <<i, j, similar_candidates>>
           ELSE /\ similar_candidates' =
                      IF AtLeastThreshold(sim, similarity_threshold)
                      THEN Append(similar_candidates, Candidate(i, j, sim))
                      ELSE similar_candidates
                /\ IF j + 1 < Len(recipes)
                   THEN /\ j' = j + 1 /\ i' = i /\ pc' = "pairs"
                   ELSE /\ i' = i + 1
                        /\ j' = FirstJ(i + 1)
                        /\ pc' = IF FirstJ(i + 1) < Len(recipes)
                                 THEN "pairs" ELSE "return"
    /\ UNCHANGED <<recipes, similarity_threshold, items, summary, report,
                   scorerVars, parseVars, splitVars, mainVars, routeVars>>

Return ==
    /\ pc = "return"
    /\ report' =
          [summary |-> [count |-> Len(items),
                        average_quality_score |-> summary.average_quality_score,
                        total_issues |-> summary.total_issues,
                        total_warnings |-> summary.total_warnings,
                        similar_candidates |-> Len(similar_candidates)],
           similarity_threshold |-> similarity_threshold,
           similar_candidates |-> similar_candidates,
           items |-> items]
    /\ pc' = "done"
    /\ UNCHANGED <<recipes, similarity_threshold, items, summary, i, j,
                   similar_candidates, scorerVars, parseVars, splitVars, mainVars, routeVars>>

NextBatch == AnalyzeItems \/ PairStep \/ Return

SpecBatch == InitBatch /\ [][NextBatch]_vars

(***************************************************************************)
(* rezept_parsen on one block.                                             *)
(***************************************************************************)
InitParse ==
    /\ pc = "parse"
    /\ block \in TextsOf(ParseLinePool)
    /\ rezept = NoRezept
    /\ ScorerUnused /\ BatchUnused /\ SplitUnused /\ MainUnused /\ RouteUnused

ParseRezept ==
    /\ pc = "parse"
    /\ rezept' = rezept_parsen(block)
    /\ pc' = "parsed"
    /\ UNCHANGED <<block, scorerVars, batchVars, splitVars, mainVars, routeVars>>

NextParse == ParseRezept

SpecParse == InitParse /\ [][NextParse]_vars

(***************************************************************************)
(* rezept_parsen on one block of up to MaxFallbackLines short lines, for   *)
(* the fallback on chunks.                                                 *)
(***************************************************************************)
InitFallback ==
    /\ pc = "parse"
    /\ block \in {Join(<<"\n">>, ls) : ls \in SeqsUpTo(FallbackLinePool, MaxFallbackLines)}
    /\ rezept = NoRezept
    /\ ScorerUnused /\ BatchUnused /\ SplitUnused /\ MainUnused /\ RouteUnused

SpecFallback == InitFallback /\ [][NextParse]_vars

(***************************************************************************)
(* rezepte_aufteilen on one text.                                          *)
(***************************************************************************)
InitSplit ==
    /\ pc = "split"
    /\ text \in TextsOf(SplitLinePool)
    /\ bloecke = <<>>
    /\ ScorerUnused /\ BatchUnused /\ ParseUnused /\ MainUnused /\ RouteUnused

Aufteilen ==
    /\ pc = "split"
    /\ bloecke' = rezepte_aufteilen(text)
    /\ pc' = "aufgeteilt"
    /\ UNCHANGED <<text, scorerVars, batchVars, parseVars, mainVars, routeVars>>

NextSplit == Aufteilen

SpecSplit == InitSplit /\ [][NextSplit]_vars

(***************************************************************************)
(* main: read and split the text, parse the blocks, analyze_recipes (the   *)
(* actions of the batch above), write the report, apply the import policy, *)
(* preview (--dry-run) or log in and import.  pc = "raised" is an          *)
(* exception that leaves main.                                             *)
(***************************************************************************)
InitMain ==
    /\ pc = "main"
    /\ text \in {Join(<<"\n">>, bs) : bs \in SeqsUpTo(MainBlockPool, MaxRezepte)}
    /\ args \in ArgsPool
    /\ bloecke = <<>> /\ rezepte = <<>> /\ skip_indices = {} /\ idx = 0
    /\ abschnitt_cache = NoCache /\ calls = <<>> /\ rc = -1
    /\ ScorerUnused /\ BatchUnused /\ ParseUnused /\ RouteUnused

\* bloecke = rezepte_aufteilen(text); rezepte = [rezept_parsen(b) for b in bloecke]
ReadInput ==
    /\ pc = "main"
    /\ bloecke' = rezepte_aufteilen(text)
    /\ rezepte' = [k \in 1..Len(bloecke') |-> rezept_parsen(bloecke'[k])]
    /\ recipes' = [k \in 1..Len(rezepte') |-> AsRecipe(rezepte'[k])]
    /\ similarity_threshold' = SIMILARITY_THRESHOLD
    /\ pc' = "start"
    /\ UNCHANGED <<text, args, skip_indices, idx, abschnitt_cache, calls, rc,
                   items, summary, i, j, similar_candidates, report,
                   scorerVars, parseVars, routeVars>>

\* WriteReport without the try/except: a failed write leaves main
WriteReportRaising ==
    /\ pc = "done"
    /\ \E ok \in BOOLEAN :
          /\ calls' = Append(calls, Call("write_report", ok, -1, <<>>, <<>>))
          /\ IF ~ok THEN pc' = "raised" /\ rc' = rc
             ELSE IF args.analyze_only THEN pc' = "returned" /\ rc' = 0
             ELSE pc' = "policy" /\ rc' = rc
    /\ UNCHANGED <<args, rezepte, skip_indices, idx, abschnitt_cache,
                   scorerVars, batchVars, parseVars, splitVars, routeVars>>

\* json.dump of the report: a failure is logged only; --analyze-only returns
WriteReport ==
    /\ pc = "done"
    /\ \E ok \in BOOLEAN :
          calls' = Append(calls, Call("write_report", ok, -1, <<>>, <<>>))
    /\ IF args.analyze_only THEN pc' = "returned" /\ rc' = 0
       ELSE pc' = "policy" /\ rc' = rc
    /\ UNCHANGED <<args, rezepte, skip_indices, idx, abschnitt_cache,
                   scorerVars, batchVars, parseVars, splitVars, routeVars>>

\* skip_indices and, under skip-similar-or-unfit, the skip log
ApplyPolicy ==
    /\ pc = "policy"
    /\ skip_indices' = SkipIndices(args.import_policy, report)
    /\ IF args.import_policy = "skip-similar-or-unfit"
       THEN \E ok \in BOOLEAN :
               calls' = Append(calls, Call("write_skip_log", ok, -1, <<>>, <<>>))
       ELSE calls' = calls
    /\ pc' = IF args.dry_run THEN "preview" ELSE "login"
    /\ UNCHANGED <<args, rezepte, idx, abschnitt_cache, rc,
                   scorerVars, batchVars, parseVars, splitVars, routeVars>>

\* --dry-run: the preview is logged for every recipe
DryRun ==
    /\ pc = "preview"
    /\ pc' = "returned" /\ rc' = 0
    /\ UNCHANGED <<args, rezepte, skip_indices, idx, abschnitt_cache, calls,
                   scorerVars, batchVars, parseVars, splitVars, routeVars>>

\* anmelden(): a token, a result without a str token, or an exception
Anmelden ==
    /\ pc = "login"
    /\ \E out \in {"token", "no_token", "raises"} :
          /\ calls' = Append(calls, Call("anmelden", out = "token", -1, <<>>, <<>>))
          /\ pc' = CASE out = "token" -> "import"
                     [] out = "no_token" -> "returned"
                     [] out = "raises" -> "raised"
          /\ rc' = IF out = "no_token" THEN 1 ELSE rc
    /\ UNCHANGED <<args, rezepte, skip_indices, idx, abschnitt_cache,
                   scorerVars, batchVars, parseVars, splitVars, routeVars>>

\* if idx in skip_indices: continue
ImportSkip ==
    /\ pc = "import" /\ idx < Len(rezepte) /\ idx \in skip_indices
    /\ idx' = idx + 1
    /\ UNCHANGED <<pc, args, rezepte, skip_indices, abschnitt_cache, calls, rc,
                   scorerVars, batchVars, parseVars, splitVars, routeVars>>

\* FindAbschnitt without the test "abs_name not in abschnitt_cache"
FindAbschnittUncached ==
    /\ pc = "import" /\ idx < Len(rezepte) /\ idx \notin skip_indices
    /\ args.abschnitt_id = <<>>
    /\ Cardinality({k \in 1..Len(calls) : calls[k].idx = idx}) < 2
    /\ \E ok \in BOOLEAN :
          /\ calls' = Append(calls, Call("abschnitt_id_finden", ok, idx,
                                         Resolved(idx).section, <<>>))
          /\ IF ok
             THEN /\ abschnitt_cache' =
                        [name \in DOMAIN abschnitt_cache \cup {Resolved(idx).section} |->
                            SectionId(name)]
                  /\ pc' = pc
             ELSE /\ pc' = "raised"
                  /\ abschnitt_cache' = abschnitt_cache
    /\ UNCHANGED <<args, rezepte, skip_indices, idx, rc,
                   scorerVars, batchVars, parseVars, splitVars, routeVars>>

\* abschnitt_id_finden for a name that is not in the cache; its exception
\* leaves main
FindAbschnitt ==
    /\ pc = "import" /\ idx < Len(rezepte) /\ idx \notin skip_indices
    /\ args.abschnitt_id = <<>>
    /\ Resolved(idx).section \notin DOMAIN abschnitt_cache
    /\ \E ok \in BOOLEAN :
          /\ calls' = Append(calls, Call("abschnitt_id_finden", ok, idx,
                                         Resolved(idx).section, <<>>))
          /\ IF ok
             THEN /\ abschnitt_cache' =
                        [name \in DOMAIN abschnitt_cache \cup {Resolved(idx).section} |->
                            IF name \in DOMAIN abschnitt_cache THEN abschnitt_cache[name]
                            ELSE SectionId(name)]
                  /\ pc' = pc
             ELSE /\ pc' = "raised"
                  /\ abschnitt_cache' = abschnitt_cache
    /\ UNCHANGED <<args, rezepte, skip_indices, idx, rc,
                   scorerVars, batchVars, parseVars, splitVars, routeVars>>

\* ErstelleSeite without the try/except: the exception leaves main
ErstelleSeiteRaising ==
    /\ pc = "import" /\ idx < Len(rezepte) /\ idx \notin skip_indices
    /\ args.abschnitt_id # <<>> \/ Resolved(idx).section \in DOMAIN abschnitt_cache
    /\ \E ok \in BOOLEAN :
          /\ calls' = Append(calls,
                IF args.abschnitt_id # <<>>
                THEN Call("oneNote_seite_erstellen", ok, idx, args.abschnitt_id,
                          PyStr(Or(StrVal(rezepte[idx + 1].titel), StrVal(<<"Rezept">>))))
                ELSE Call("oneNote_seite_erstellen", ok, idx,
                          abschnitt_cache[Resolved(idx).section], Resolved(idx).title))
          /\ pc' = IF ok THEN pc ELSE "raised"
          /\ idx' = IF ok THEN idx + 1 ELSE idx
    /\ UNCHANGED <<args, rezepte, skip_indices, abschnitt_cache, rc,
                   scorerVars, batchVars, parseVars, splitVars, routeVars>>

\* oneNote_seite_erstellen in the section found; its exception is logged
ErstelleSeite ==
    /\ pc = "import" /\ idx < Len(rezepte) /\ idx \notin skip_indices
    /\ args.abschnitt_id # <<>> \/ Resolved(idx).section \in DOMAIN abschnitt_cache
    /\ \E ok \in BOOLEAN :
          calls' = Append(calls,
              IF args.abschnitt_id # <<>>
              THEN Call("oneNote_seite_erstellen", ok, idx, args.abschnitt_id,
                        PyStr(Or(StrVal(rezepte[idx + 1].titel), StrVal(<<"Rezept">>))))
              ELSE Call("oneNote_seite_erstellen", ok, idx,
                        abschnitt_cache[Resolved(idx).section], Resolved(idx).title))
    /\ idx' = idx + 1
    /\ UNCHANGED <<pc, args, rezepte, skip_indices, abschnitt_cache, rc,
                   scorerVars, batchVars, parseVars, splitVars, routeVars>>

\* return 0 after the loop
ReturnMain ==
    /\ pc = "import" /\ idx = Len(rezepte)
    /\ pc' = "returned" /\ rc' = 0
    /\ UNCHANGED <<args, rezepte, skip_indices, idx, abschnitt_cache, calls,
                   scorerVars, batchVars, parseVars, splitVars, routeVars>>

NextMain ==
    \/ ReadInput \/ AnalyzeItems \/ PairStep \/ Return \/ WriteReport
    \/ ApplyPolicy \/ DryRun \/ Anmelden
    \/ ImportSkip \/ FindAbschnitt \/ ErstelleSeite \/ ReturnMain

SpecMain == InitMain /\ [][NextMain]_vars

(***************************************************************************)
(* _resolve_target_section_and_title on one recipe.                        *)
(***************************************************************************)
InitRoute ==
    /\ pc = "route"
    /\ route \in RoutePool
    /\ resolved = NoResolved
    /\ ScorerUnused /\ BatchUnused /\ ParseUnused /\ SplitUnused /\ MainUnused

Resolve ==
    /\ pc = "route"
    /\ resolved' = resolve_target_section_and_title(route.rezept, route.default_section,
                        route.mapping, route.separator, route.use_subcategory_title_prefix)
    /\ pc' = "routed"
    /\ UNCHANGED <<route, scorerVars, batchVars, parseVars, splitVars, mainVars>>

NextRoute == Resolve

SpecRoute == InitRoute /\ [][NextRoute]_vars

(***************************************************************************)
(* Claims about analysis.py                                                *)
(***************************************************************************)
Clamp(x, lo, hi) == IF x < lo THEN lo ELSE IF x > hi THEN hi ELSE x

\* C1: the quality_score analyze_recipe returns is
\* clamp(100 - 20*|issues| - 7*|warnings| + bonus, 0, 100) over the issues and
\* warnings of the same result, bonus being 5 exactly when protective_hits >= 2
\* and 0 otherwise; so it lies in 0..100.
C1_ScoreFormula ==
    pc = "scored" =>
        LET bonus == IF result.health.protective_hits >= 2 THEN 5 ELSE 0
        IN  /\ result.quality_score =
                  Clamp(100 - 20 * Len(result.issues) - 7 * Len(result.warnings) + bonus,
                        0, 100)
            /\ result.quality_score \in 0..100

\* a recipe with two protective hits and nothing to subtract: 105 clamped to 100
C1_Witness ==
    /\ pc = "scored"
    /\ result.health.protective_hits >= 2
    /\ result.issues = <<>> /\ result.warnings = <<>>
    /\ result.quality_score = 100

\* the normalized token set of a recipe: title plus ingredients
TokenSet(r) == tokenize(SimilarityText(r))

\* |A n B| / |A u B| >= threshold (ten-thousandths), 0 when a set is empty
JaccardAtLeast(A, B, threshold) ==
    IF A = {} \/ B = {} THEN 0 >= threshold
    ELSE 10000 * Cardinality(A \cap B) >= threshold * Cardinality(A \cup B)

IsCandidate(cands, a, b) ==
    \E k \in 1..Len(cands) : cands[k].index_a = a /\ cands[k].index_b = b

\* two token sets of the shape {a,b,c}, {a,b,d}
TwoOfThree(A, B) ==
    Cardinality(A) = 3 /\ Cardinality(B) = 3 /\ Cardinality(A \cap B) = 2

\* C2: in the report of analyze_recipes, the pair of positions i < j is a
\* similar candidate if and only if the Jaccard similarity of the two recipes'
\* token sets (0 when either set is empty) is >= the threshold; token sets
\* {a,b,c} and {a,b,d} are a candidate at 0.45 and not at 0.55.
C2_CandidateIffJaccard ==
    pc = "done" =>
        \A a, b \in 0..(Len(recipes) - 1) :
            a < b =>
                LET A == TokenSet(recipes[a + 1])
                    B == TokenSet(recipes[b + 1])
                    cand == IsCandidate(report.similar_candidates, a, b)
                IN  /\ cand <=> JaccardAtLeast(A, B, report.similarity_threshold)
                    /\ TwoOfThree(A, B) /\ report.similarity_threshold = 4500 => cand
                    /\ TwoOfThree(A, B) /\ report.similarity_threshold = 5500 => ~cand

\* token sets {a,b,c} and {a,b,d} reported at threshold 0.45
C2_Witness ==
    /\ pc = "done"
    /\ report.similarity_threshold = 4500
    /\ \E a, b \in 0..(Len(recipes) - 1) :
          /\ a < b
          /\ TwoOfThree(TokenSet(recipes[a + 1]), TokenSet(recipes[b + 1]))
          /\ IsCandidate(report.similar_candidates, a, b)

\* indices in range and the list in strictly ascending order of (index_a, index_b)
WellOrdered(cands, n) ==
    /\ \A k \in 1..Len(cands) :
          0 <= cands[k].index_a /\ cands[k].index_a < cands[k].index_b
          /\ cands[k].index_b < n
    /\ \A k, m \in 1..Len(cands) :
          k < m =>
              \/ cands[k].index_a < cands[m].index_a
              \/ /\ cands[k].index_a = cands[m].index_a
                 /\ cands[k].index_b < cands[m].index_b

\* C3: every similar candidate has 0 <= index_a < index_b < n, the candidate
\* list is in strictly ascending lexicographic order of (index_a, index_b), and
\* so no pair of positions appears twice: in the list as it is built and in
\* the report returned.
C3_CandidatesOrdered ==
    /\ WellOrdered(similar_candidates, Len(recipes))
    /\ pc = "done" => WellOrdered(report.similar_candidates, Len(recipes))

\* a report with two candidates of the same index_a
C3_Witness ==
    /\ pc = "done"
    /\ \E k, m \in 1..Len(report.similar_candidates) :
          /\ k < m
          /\ report.similar_candidates[k].index_a = report.similar_candidates[m].index_a

Abs(x) == IF x < 0 THEN -x ELSE x

\* C4: the report has one item per input recipe, in input order; count is the
\* number of items; total_issues and total_warnings are the sums of the items'
\* list lengths; similar_candidates is the length of the candidate list;
\* average_quality_score (in tenths) is the mean of the scores rounded to one
\* decimal place, and 0.0 with empty lists for the empty batch, which the
\* call survives.
C4_Summary ==
    /\ recipes = <<>> => pc # "raised"
    /\ pc = "done" =>
        LET n == Len(recipes)
            its == report.items
            total == Sum([k \in 1..Len(its) |-> its[k].quality_score])
        IN  /\ Len(its) = n
            /\ \A k \in 1..n : its[k] = analyze_recipe(recipes[k])
            /\ report.summary.count = Len(its)
            /\ report.summary.total_issues = Sum([k \in 1..n |-> Len(its[k].issues)])
            /\ report.summary.total_warnings = Sum([k \in 1..n |-> Len(its[k].warnings)])
            /\ report.summary.similar_candidates = Len(report.similar_candidates)
            /\ n > 0 =>
                  2 * Abs(report.summary.average_quality_score * n - 10 * total) <= n
            /\ n = 0 =>
                  /\ report.summary.average_quality_score = 0
                  /\ its = <<>> /\ report.similar_candidates = <<>>

\* a report over three recipes whose mean is not a whole number of tenths
C4_Witness ==
    /\ pc = "done"
    /\ Len(recipes) = 3
    /\ report.summary.total_issues > 0 /\ report.summary.total_warnings > 0
    /\ report.summary.similar_candidates > 0
    /\ (10 * Sum([k \in 1..3 |-> report.items[k].quality_score])) % 3 = 2

\* C5: analyze_recipes never aborts a batch: a malformed recipe (fields absent,
\* empty, None, list entries that are not strings) is reported through issues
\* and warnings only, and the call does not raise.
C5_NeverAborts == pc # "raised"

\* C13: every candidate of a report has a similarity (the Jaccard value rounded
\* to 3 decimal places, here in thousandths) that lies in [0, 1] and is greater
\* than or equal to the similarity_threshold of the same report.
C13_SimilarityAtLeastThreshold ==
    pc = "done" =>
        \A k \in 1..Len(report.similar_candidates) :
            /\ 0 <= report.similar_candidates[k].similarity
            /\ report.similar_candidates[k].similarity <= 1000
            /\ report.similar_candidates[k].similarity * 10 >= report.similarity_threshold

\* a title or category that is missing, None, empty or blank
IsEmptyText(val) ==
    val.kind \in {"absent", "none"} \/ (val.kind = "str" /\ Strip(val.v) = <<>>)

\* a list that is missing, None, empty or made of blank strings
IsEmptyList(val) ==
    \/ val.kind \in {"absent", "none"}
    \/ val.kind = "list"
       /\ \A k \in 1..Len(val.v) : val.v[k].kind = "str" /\ Strip(val.v[k].v) = <<>>

\* C14: a recipe with empty title, empty category, empty ingredients and empty
\* steps gets exactly the 3 issues title, ingredients, steps, in that order,
\* exactly the 1 warning of the missing category, and quality_score 33.
C14_EmptyRecipe ==
    (pc = "scored" /\ IsEmptyText(recipe.titel) /\ IsEmptyText(recipe.kategorie)
     /\ IsEmptyList(recipe.zutaten) /\ IsEmptyList(recipe.schritte)) =>
        /\ result.issues = <<"Titel fehlt oder ist unklar", "Zutaten fehlen",
                             "Zubereitungsschritte fehlen">>
        /\ result.warnings = <<"Kategorie fehlt">>
        /\ result.quality_score = 33

\* the recipe {"titel": "", "kategorie": "", "zutaten": [], "schritte": []}, scored
C14_Witness ==
    /\ pc = "scored"
    /\ recipe = Rec(StrVal(<<>>), StrVal(<<>>), ListVal(<<>>), ListVal(<<>>))
    /\ Len(result.issues) = 3 /\ Len(result.warnings) = 1
    /\ result.quality_score = 33

InFlags(label) ==
    \E k \in 1..Len(result.health.risk_flags) : result.health.risk_flags[k] = label

\* the recipe has an ingredient entry that holds the word Pancetta
HasPancetta ==
    /\ recipe.zutaten.kind = "list"
    /\ \E k \in 1..Len(recipe.zutaten.v) :
          /\ recipe.zutaten.v[k].kind = "str"
          /\ \E x \in 1..Len(recipe.zutaten.v[k].v) :
                recipe.zutaten.v[k].v[x] \in {"Pancetta", "pancetta"}

\* C15: the labels prostata_krebs and brustkrebs are equal; both are "bedingt"
\* if and only if the processed_meat or the red_meat flag is active, else both
\* are "geeignet", whatever the high_sugar flag, the issues, the warnings and
\* the protective hits are.  A recipe with Pancetta among its ingredients gets
\* the processed-meat warning and both labels "bedingt".
C15_HealthLabels ==
    pc = "scored" =>
        /\ result.health.prostata_krebs = result.health.brustkrebs
        /\ result.health.prostata_krebs =
              IF InFlags("processed_meat") \/ InFlags("red_meat")
              THEN "bedingt" ELSE "geeignet"
        /\ HasPancetta =>
              /\ \E k \in 1..Len(result.warnings) :
                    result.warnings[k] = "Verarbeitetes Fleisch erkannt"
              /\ result.health.prostata_krebs = "bedingt"
              /\ result.health.brustkrebs = "bedingt"

\* a recipe with Pancetta, and the labels left alone by sugar: "bedingt" here
C15_Witness ==
    /\ pc = "scored" /\ HasPancetta
    /\ InFlags("processed_meat") /\ ~InFlags("red_meat") /\ InFlags("high_sugar")
    /\ result.health.prostata_krebs = "bedingt"
    /\ result.health.brustkrebs = "bedingt"

\* the text is one of the issues, or one of the warnings, of the result
InIssues(msg) == \E k \in 1..Len(result.issues) : result.issues[k] = msg
InWarnings(msg) == \E k \in 1..Len(result.warnings) : result.warnings[k] = msg

\* C23: the quality_score is at least 32, so the lower bound 0 of the clamp is
\* never reached: a recipe without ingredients has none of the three warnings
\* drawn from the ingredients, so at most 3 issues and 1 warning; a recipe with
\* ingredients has not the issue of missing ingredients, so at most 2 issues
\* and 4 warnings. The score is 100 if and only if there is no issue and no
\* warning.
C23_ScoreAtLeast32 ==
    pc = "scored" =>
        /\ result.quality_score >= 32
        /\ 100 - 20 * Len(result.issues) - 7 * Len(result.warnings) >= 32
        /\ IsEmptyList(recipe.zutaten) =>
              /\ ~InWarnings("Viele Zutaten ohne klare Mengenangaben")
              /\ ~InWarnings("Verarbeitetes Fleisch erkannt")
              /\ ~InWarnings("Zuckeranteil pruefen")
              /\ Len(result.issues) <= 3 /\ Len(result.warnings) <= 1
        /\ ~IsEmptyList(recipe.zutaten) =>
              /\ ~InIssues("Zutaten fehlen")
              /\ Len(result.issues) <= 2 /\ Len(result.warnings) <= 4
        /\ result.quality_score = 100 <=>
              (result.issues = <<>> /\ result.warnings = <<>>)

\* the lowest score: a recipe with ingredients, 2 issues and all 4 warnings
C23_Witness ==
    /\ pc = "scored" /\ ~IsEmptyList(recipe.zutaten)
    /\ Len(result.issues) = 2 /\ Len(result.warnings) = 4
    /\ result.health.protective_hits < 2
    /\ result.quality_score = 32

(***************************************************************************)
(* Claims about rezept_parsen and rezepte_aufteilen                        *)
(***************************************************************************)
\* a line that is a title header: a title word, ":" and the title text
IsTitleHeaderLine(l) ==
    /\ l # <<>> /\ LowerAtom(l[1]) \in TITLE_WORDS
    /\ SkipSpace(l, 1) < Len(l) /\ l[SkipSpace(l, 1) + 1] = ":"

\* the title text of a title-header line
TitleTextOf(l) == Strip(Slice(l, SkipSpace(l, 1) + 1, Len(l)))

\* C6: the titel rezept_parsen returns is a non-empty string: the text of the
\* explicit title-header line if there is one, else the first non-blank line
\* of the block, and "Unbekannt" whenever that title is absent or blank, a
\* title-header line with only whitespace for its title text included.
C6_TitelOrSentinel ==
    pc = "parsed" =>
        LET lines == SplitLines(block)
            k == SetMin({x \in 1..Len(lines) : IsTitleHeaderLine(lines[x])})
            claimed == IF k = -1 THEN FirstNonBlank(lines, <<"Unbekannt">>)
                       ELSE IF TitleTextOf(lines[k]) = <<>> THEN <<"Unbekannt">>
                       ELSE TitleTextOf(lines[k])
        IN  rezept.titel # <<>> /\ rezept.titel = claimed

\* an entry that begins with a bullet or a numbered-list marker and whitespace
BeginsWithMarker(e) ==
    \/ Len(e) >= 2 /\ e[1] = "-" /\ IsSpace(e[2])
    \/ Len(e) >= 3 /\ IsDigits(e[1]) /\ e[2] = "." /\ IsSpace(e[3])

EntriesOf(l) == {l[k] : k \in 1..Len(l)}

\* C7: no entry stored in zutaten or schritte still begins with a bullet or a
\* numbered-list marker followed by whitespace, on every extraction path that
\* fills these lists.
C7_NoListMarker ==
    pc = "parsed" =>
        \A e \in EntriesOf(rezept.zutaten) \cup EntriesOf(rezept.schritte) :
            ~BeginsWithMarker(e)

\* C8: every entry of zutaten, schritte and bilder is non-blank and has no
\* leading or trailing whitespace, also after the list marker was removed.
C8_EntriesTrimmed ==
    pc = "parsed" =>
        \A e \in EntriesOf(rezept.zutaten) \cup EntriesOf(rezept.schritte)
                  \cup EntriesOf(rezept.bilder) :
            Strip(e) # <<>> /\ Strip(e) = e

\* an ingredients section holding a bare "-" and a numbered line with blanks
\* around it: stored as "-" and "x"
C8_Witness ==
    /\ pc = "parsed"
    /\ \E k \in 1..Len(block) : block[k] = "Zutaten"
    /\ <<"-">> \in EntriesOf(rezept.zutaten)
    /\ <<"x">> \in EntriesOf(rezept.zutaten)
    /\ \E k \in 1..Len(block) : block[k] = "1"

RezeptFields ==
    {"titel", "kategorie", "zutaten", "schritte", "portionen", "zeit", "schwierigkeit",
     "bilder", "raw"}

\* C9: the record has every field present and its kategorie is a string: the
\* empty string for an absent category, else a non-empty whitespace-trimmed
\* string, so that it can be split on the separator without a further check.
C9_KategorieString ==
    pc = "parsed" =>
        /\ DOMAIN rezept = RezeptFields
        /\ rezept.kategorie.kind = "str"
        /\ Strip(rezept.kategorie.v) = rezept.kategorie.v

\* the offset at which line k of a text starts
RECURSIVE LineStart(_, _)
LineStart(lines, k) ==
    IF k = 1 THEN 0 ELSE LineStart(lines, k - 1) + Len(lines[k - 1]) + 1

\* the blocks the claim describes when the lines numbered in titles are taken
\* as the title-header lines
ClaimedBlocks(s, lines, titles) ==
    LET k == Cardinality(titles)
        nth(m) == CHOOSE n \in titles : Cardinality({x \in titles : x < n}) = m - 1
        to(m) == IF m < k THEN LineStart(lines, nth(m + 1)) ELSE Len(s)
    IN  [m \in 1..k |-> Strip(Slice(s, LineStart(lines, nth(m)), to(m)))]

\* C10: a text with k >= 1 title-header lines is split into exactly k blocks, in
\* source order; block i is the text from the i-th title line up to the next
\* title line or the end, trimmed, and is not empty.  A title-header line is
\* read either as a title word and ":" followed by a title text, or as a title
\* word and ":" alone; the claim is taken to hold if it holds under one reading.
C10_OneBlockPerTitleLine ==
    pc = "aufgeteilt" =>
        LET lines == SplitLines(text)
            withText == {n \in 1..Len(lines) :
                            IsTitleHeaderLine(lines[n]) /\ TitleTextOf(lines[n]) # <<>>}
            anyText == {n \in 1..Len(lines) : IsTitleHeaderLine(lines[n])}
            Holds(titles) ==
                titles # {} =>
                    /\ bloecke = ClaimedBlocks(text, lines, titles)
                    /\ \A m \in 1..Len(bloecke) : bloecke[m] # <<>>
        IN  Holds(withText) \/ Holds(anyText)

\* text[a:b] is a run of 3 or more consecutive line breaks (\n or \r\n)
IsBreakRun(s, a, b) ==
    /\ \A x \in (a + 1)..b : s[x] \in {"\n", "\r"}
    /\ \A x \in (a + 1)..b : s[x] = "\r" => x < b /\ s[x + 1] = "\n"
    /\ Cardinality({x \in (a + 1)..b : s[x] = "\n"}) >= 3

\* the longest runs of 3 or more consecutive line breaks of a text
BreakRuns(s) ==
    LET runs == {r \in (0..Len(s)) \X (0..Len(s)) : r[1] < r[2] /\ IsBreakRun(s, r[1], r[2])}
    IN  {r \in runs : \A q \in runs : (q[1] <= r[1] /\ r[2] <= q[2]) => q = r}

\* the pieces of a text between the runs R, from offset p on
RECURSIVE PiecesFrom(_, _, _)
PiecesFrom(s, R, p) ==
    LET a == SetMin({r[1] : r \in {q \in R : q[1] >= p}})
    IN  IF a = -1 THEN <<Slice(s, p, Len(s))>>
        ELSE <<Slice(s, p, a)>>
             \o PiecesFrom(s, R, (CHOOSE r \in R : r[1] = a)[2])

\* the pieces that are not blank, trimmed, in source order
TrimmedPieces(pieces) ==
    LET NonBlank(x) == Strip(x) # <<>>
        kept == SelectSeq(pieces, NonBlank)
    IN  [k \in 1..Len(kept) |-> Strip(kept[k])]

\* C11: a text without a title-header line is split at every run of 3 or more
\* consecutive line breaks into its trimmed non-empty pieces, in source order;
\* without such a run the result is the one block of the whole trimmed text,
\* and a blank text gives the empty sequence.  The texts excluded are those
\* with a line made of a title word and ":", with or without a title text.
C11_FallbackSplit ==
    pc = "aufgeteilt" =>
        LET lines == SplitLines(text)
            titles == {n \in 1..Len(lines) : IsTitleHeaderLine(lines[n])}
        IN  titles = {} =>
                /\ bloecke = TrimmedPieces(PiecesFrom(text, BreakRuns(text), 0))
                /\ (BreakRuns(text) = {} /\ Strip(text) # <<>>) => bloecke = <<Strip(text)>>
                /\ Strip(text) = <<>> => bloecke = <<>>

\* the lines of the block, right-trimmed
Zeilen == [k \in 1..Len(SplitLines(block)) |-> RStrip(SplitLines(block)[k])]

\* a line that is a header of one of the words: the word at the start of the
\* line, then nothing or a colon
IsHeaderLine(l, words) ==
    /\ l # <<>> /\ LowerAtom(l[1]) \in words
    /\ Strip(SubSeq(l, 2, Len(l))) \in {<<>>, <<":">>}

\* the number of the first header line of the words, 0 without one
HeaderLine(words) ==
    LET hs == {k \in 1..Len(Zeilen) : IsHeaderLine(Zeilen[k], words)}
    IN  IF hs = {} THEN 0 ELSE CHOOSE k \in hs : \A x \in hs : k <= x

\* the lines after the header line h up to the next header line of any kind,
\* or up to the end of the block
SectionRange(h) ==
    LET later == {k \in (h + 1)..Len(Zeilen) : IsHeaderLine(Zeilen[k], HEADER_WORDS)}
        stop == IF later = {} THEN Len(Zeilen) + 1
                ELSE CHOOSE k \in later : \A x \in later : k <= x
    IN  SubSeq(Zeilen, h + 1, stop - 1)

\* the non-blank lines of the section of the words, without their list marker
RangeEntries(words) ==
    LET NonBlank(l) == Strip(l) # <<>>
        kept == SelectSeq(SectionRange(HeaderLine(words)), NonBlank)
    IN  IF HeaderLine(words) = 0 THEN <<>>
        ELSE [k \in 1..Len(kept) |-> remove_list_prefix(kept[k])]

\* the first non-blank line of the section of the words, trimmed, or empty
RangeFirstLine(words) ==
    LET NonBlank(l) == Strip(l) # <<>>
        kept == SelectSeq(SectionRange(HeaderLine(words)), NonBlank)
    IN  IF HeaderLine(words) = 0 \/ kept = <<>> THEN <<>> ELSE Strip(kept[1])

\* C18: every section scan that starts at a header takes the lines after its
\* own header line up to the next header line of any kind, or up to the end of
\* the block, and nothing from that header line on: zutaten and schritte (when
\* one of them is found this way) and bilder are made of the non-blank lines of
\* that range, and kategorie, portionen, zeit and schwierigkeit are its first
\* non-blank line, or empty if it has none.
C18_SectionRange ==
    pc = "parsed" =>
        /\ (RangeEntries(INGREDIENTS_WORDS) # <<>> \/ RangeEntries(INSTRUCTIONS_WORDS) # <<>>) =>
              /\ rezept.zutaten = RangeEntries(INGREDIENTS_WORDS)
              /\ rezept.schritte = RangeEntries(INSTRUCTIONS_WORDS)
        /\ rezept.bilder = OnlyUrls(RangeEntries(IMAGES_WORDS))
        /\ HeaderLine(CATEGORY_WORDS) # 0 =>
              rezept.kategorie = StrVal(RangeFirstLine(CATEGORY_WORDS))
        /\ rezept.portionen = RangeFirstLine(PORTIONS_WORDS)
        /\ rezept.zeit = RangeFirstLine(TIME_WORDS)
        /\ rezept.schwierigkeit = RangeFirstLine(DIFFICULTY_WORDS)

\* no line of the block is a header line
NoHeaders == \A k \in 1..Len(Zeilen) : ~IsHeaderLine(Zeilen[k], HEADER_WORDS)

\* the lines of the block after its first line
RestZeilen == IF Zeilen = <<>> THEN <<>> ELSE Tail(Zeilen)

\* the numbers of the lines of RestZeilen that start a chunk: a non-blank line
\* that is the first one or follows a blank line
ChunkStarts ==
    {k \in 1..Len(RestZeilen) :
        /\ Strip(RestZeilen[k]) # <<>>
        /\ (k = 1 \/ Strip(RestZeilen[k - 1]) = <<>>)}

\* the trimmed lines of the chunk that starts at line k of RestZeilen
ChunkLines(k) ==
    LET blanks == {x \in k..Len(RestZeilen) : Strip(RestZeilen[x]) = <<>>}
        stop == IF blanks = {} THEN Len(RestZeilen) + 1
                ELSE CHOOSE x \in blanks : \A y \in blanks : x <= y
    IN  [x \in 1..(stop - k) |-> Strip(RestZeilen[k + x - 1])]

\* the trimmed lines of the n-th chunk, none if there are fewer chunks
NthChunk(n) ==
    LET before(k) == Cardinality({x \in ChunkStarts : x < k})
        at == {k \in ChunkStarts : before(k) = n - 1}
    IN  IF at = {} THEN <<>> ELSE ChunkLines(CHOOSE k \in at : TRUE)

\* the statement of C19 as written: without headers and with fewer than two
\* chunks after the first line, zutaten and schritte are both empty
C19_FewChunksBothEmpty ==
    (pc = "parsed" /\ NoHeaders /\ Cardinality(ChunkStarts) < 2) =>
        rezept.zutaten = <<>> /\ rezept.schritte = <<>>

\* C19: when a block has no header line and fewer than two chunks separated
\* by blank lines after its first line, schritte is empty and zutaten is made
\* of the trimmed lines of the only chunk; both are empty only when there is
\* no chunk at all.
C19_FewChunksNoSchritte ==
    (pc = "parsed" /\ NoHeaders /\ Cardinality(ChunkStarts) < 2) =>
        /\ rezept.schritte = <<>>
        /\ rezept.zutaten = NthChunk(1)
        /\ rezept.zutaten = <<>> <=> ChunkStarts = {}

\* a block without headers and with one chunk of two lines has been parsed
C19_Witness ==
    /\ pc = "parsed" /\ NoHeaders /\ Cardinality(ChunkStarts) = 1
    /\ Len(rezept.zutaten) = 2 /\ rezept.schritte = <<>>

\* what the scans from the headers give for zutaten and schritte
HeaderZutaten == extract_section(INGREDIENTS_WORDS, Join(<<"\n">>, Zeilen))
HeaderSchritte == extract_section(INSTRUCTIONS_WORDS, Join(<<"\n">>, Zeilen))

\* C20: the fallback is applied exactly when the scans from the headers left
\* zutaten and schritte both empty; zutaten is then made of the trimmed lines
\* of the first chunk of the block without its first line, schritte of those
\* of the second chunk, and later chunks are ignored; when a scan from a
\* header filled one of the lists, both lists are what the scans gave.
C20_Fallback ==
    pc = "parsed" =>
        IF HeaderZutaten = <<>> /\ HeaderSchritte = <<>>
        THEN rezept.zutaten = NthChunk(1) /\ rezept.schritte = NthChunk(2)
        ELSE rezept.zutaten = HeaderZutaten /\ rezept.schritte = HeaderSchritte

\* a block of three chunks without a header has been parsed: the fallback
\* filled both lists and left out the third chunk
C20_Witness ==
    /\ pc = "parsed" /\ NoHeaders /\ Cardinality(ChunkStarts) = 3
    /\ rezept.zutaten = << <<"x">> >>
    /\ rezept.schritte = << <<"-", " ", "x">> >>

(***************************************************************************)
(* Claims about main                                                       *)
(***************************************************************************)
\* the recipe indexes of the page creations attempted so far, in order
PageAttempts ==
    LET IsPage(c) == c.op = "oneNote_seite_erstellen"
        pages == SelectSeq(calls, IsPage)
    IN  [k \in 1..Len(pages) |-> pages[k].idx]

Attempted(n) == \E k \in 1..Len(PageAttempts) : PageAttempts[k] = n
IssueFree(n) == report.items[n + 1].issues = <<>>
IsIndexB(n) ==
    \E k \in 1..Len(report.similar_candidates) : report.similar_candidates[k].index_b = n

\* a page is to be created for recipe n under the import policy
ToImport(n) ==
    args.import_policy = "skip-similar-or-unfit" => IssueFree(n) /\ ~IsIndexB(n)

IsRemote(c) == c.op \in {"anmelden", "abschnitt_id_finden", "oneNote_seite_erstellen"}
NoAuthNoRemote == \A k \in 1..Len(calls) : ~IsRemote(calls[k])
LocalRun == args.analyze_only \/ args.dry_run
ReportWriteFailed == calls # <<>> /\ calls[1].op = "write_report" /\ ~calls[1].ok

Lookups == {k \in 1..Len(calls) : calls[k].op = "abschnitt_id_finden"}
Pages == {k \in 1..Len(calls) : calls[k].op = "oneNote_seite_erstellen"}

\* C21: without --abschnitt-id, abschnitt_id_finden is called at most once for
\* a section name, and only for the resolved section name of a recipe that is
\* not skipped; every page is created in the section id that the earlier
\* lookup of its resolved name put into the cache. With --abschnitt-id there
\* is no lookup and every page is created in the given section.
C21_SectionLookupOnce ==
    /\ args.abschnitt_id # <<>> =>
          /\ Lookups = {} /\ abschnitt_cache = NoCache
          /\ \A q \in Pages : calls[q].abschnitt = args.abschnitt_id
    /\ args.abschnitt_id = <<>> =>
          /\ \A p, q \in Lookups : calls[p].abschnitt = calls[q].abschnitt => p = q
          /\ \A q \in Lookups :
                /\ calls[q].idx \in 0..(Len(rezepte) - 1)
                /\ calls[q].idx \notin skip_indices
                /\ calls[q].abschnitt = Resolved(calls[q].idx).section
          /\ \A q \in Pages :
                /\ \E p \in Lookups :
                      /\ p < q /\ calls[p].ok
                      /\ calls[p].abschnitt = Resolved(calls[q].idx).section
                /\ Resolved(calls[q].idx).section \in DOMAIN abschnitt_cache
                /\ calls[q].abschnitt = abschnitt_cache[Resolved(calls[q].idx).section]

\* a finished run without --abschnitt-id: a recipe was skipped, two pages went
\* to the same section after one lookup, made for the first of the two
C21_Witness ==
    /\ pc = "returned" /\ rc = 0 /\ args.abschnitt_id = <<>>
    /\ skip_indices # {}
    /\ \E p, q \in Pages :
          /\ p < q /\ calls[p].abschnitt = calls[q].abschnitt
          /\ Cardinality({x \in Lookups : x < q}) = 1
          /\ \E x \in Lookups : x < p /\ calls[x].idx = calls[p].idx

\* the positions in calls of the page creations that failed
FailedPages == {q \in Pages : ~calls[q].ok}

\* the recipes after recipe n for which a page is to be created
LaterToImport(n) == {m \in (n + 1)..(Len(rezepte) - 1) : m \notin skip_indices}

RouteCategory ==
    IF route.rezept.kategorie.kind = "str" THEN Strip(route.rezept.kategorie.v) ELSE <<>>

\* the category split once at the separator: no split when the separator is
\* empty or does not occur
RouteSplit ==
    LET cat == RouteCategory
        at == {x \in 1..Len(cat) : route.separator # <<>> /\ cat[x] = route.separator[1]}
        first == IF at = {} THEN 0 ELSE CHOOSE x \in at : \A y \in at : x <= y
    IN  IF at = {} THEN [top |-> cat, sub |-> <<>>]
        ELSE [top |-> Strip(SubSeq(cat, 1, first - 1)),
              sub |-> Strip(SubSeq(cat, first + 1, Len(cat)))]

\* the section the claim describes
RouteSection ==
    LET full == Lower(RouteCategory)
        top == RouteSplit.top
    IN  IF RouteCategory = <<>> THEN route.default_section
        ELSE IF full \in DOMAIN route.mapping THEN route.mapping[full]
        ELSE IF Lower(top) \in DOMAIN route.mapping THEN route.mapping[Lower(top)]
        ELSE IF top # <<>> THEN top ELSE route.default_section

\* the title the claim describes, for the title t of the recipe
RouteTitle(t) ==
    IF RouteCategory # <<>> /\ RouteSplit.sub # <<>> /\ route.use_subcategory_title_prefix
    THEN <<"[">> \o RouteSplit.sub \o <<"]", " ">> \o t
    ELSE t

\* C16 as claimed: an empty category gives (default_section, title); else the
\* section is the mapping entry of the normalized full category, else that of
\* the normalized top part, else the top part (default_section if empty), and
\* the title is "[sub] title" if and only if sub is not empty and the prefix
\* option is on, else the unchanged title of the recipe.
C16_RouteUnchangedTitle ==
    pc = "routed" =>
        /\ resolved.section = RouteSection
        /\ resolved.title =
              RouteTitle(IF route.rezept.titel.kind = "str"
                         THEN route.rezept.titel.v ELSE <<>>)

\* C16, amended: as claimed, the title being that of the recipe or "Rezept"
\* when the recipe has no title or an empty one.
C16_RouteTitleOrRezept ==
    pc = "routed" =>
        /\ resolved.section = RouteSection
        /\ resolved.title =
              RouteTitle(IF route.rezept.titel.kind = "str" /\ route.rezept.titel.v # <<>>
                         THEN route.rezept.titel.v ELSE <<"Rezept">>)

\* "Pasta / x" routed by the entry of its top part, the prefix put before the title
C16_Witness ==
    /\ pc = "routed"
    /\ route.rezept.kategorie = StrVal(<<"Pasta", " ", "/", " ", "x">>)
    /\ route.rezept.titel = S("x")
    /\ resolved = [section |-> <<"Nudelgerichte">>, title |-> <<"[", "x", "]", " ", "x">>]

====
